---- MODULE Spec2Model ----
(***************************************************************************)
(* State-machine model of the voice session controller (the App           *)
(* component): startSession, stopSession, the live-session callbacks      *)
(* onopen / onmessage / onerror / onclose, the playback scheduling done   *)
(* in onmessage, the transcript flush, and handleTextEnter.               *)
(*                                                                         *)
(* React state setters (setStatus, setIsThinking, setIsSpeaking,          *)
(* setTranscriptions) are modelled as immediate assignments: updates are  *)
(* applied in the order they are queued.  Every await of the source is a  *)
(* point where the handler is suspended and any other callback may run.   *)
(***************************************************************************)
EXTENDS Integers, Sequences, FiniteSets, TLC

\* ------------------------------------------------------------------ bounds
MaxStarts == 2      \* startSession calls (each opens at most one transport)
MaxChunks == 2      \* inbound audio chunks (one playback source each)
MaxSessionChunks == 1   \* audio chunks where playback is not the subject
MaxPlaybackStarts == 1  \* startSession calls where the lifecycle is not the subject
MaxClock  == 2      \* largest device-clock reading (context.currentTime)
MaxBuf    == 2      \* characters held in the PendingTurnBuffer
MaxLog    == 2      \* entries in the transcript log
MaxTexts  == 1      \* handleTextEnter calls

NULL == 0          \* a ref holding null (call ids start at 1)

StartIds == 1..MaxStarts
ChunkIds == 1..MaxChunks
TextIds  == 1..MaxTexts

\* ------------------------------------------------------------------- text
\* A string is a sequence of characters.  "a" stands for a printable 7-bit
\* character, " " for 7-bit whitespace, "U" for any character above \x7F.
Chars == {"a", " ", "U"}

IsAscii(ch) == ch # "U"

RECURSIVE TrimStart(_)
TrimStart(s) ==
    IF s # <<>> /\ Head(s) = " " THEN TrimStart(Tail(s)) ELSE s

RECURSIVE TrimEnd(_)
TrimEnd(s) ==
    IF s # <<>> /\ s[Len(s)] = " " THEN TrimEnd(SubSeq(s, 1, Len(s) - 1)) ELSE s

\* String.prototype.trim
Trim(s) == TrimEnd(TrimStart(s))

\* mutant of filterHallucinations: strips the non-7-bit characters and forgets
\* to trim
filterHallucinationsNoTrim(text) == SelectSeq(text, IsAscii)

\* text.replace(/[^\x00-\x7F]/g, "").trim()
filterHallucinations(text) == Trim(SelectSeq(text, IsAscii))

\* transcript fragments and typed texts the environment may deliver
Frags == {<<"a">>, <<" ">>, <<"U">>}
TextInputs == {<<"a">>, <<" ">>, <<"U">>}
Replies == {<<>>, <<"a">>, <<"U">>}

NoText == <<"-">>   \* the field is absent from the message

Entry(role, text) == [role |-> role, text |-> text]

\* ---------------------------------------------------------------- messages
\* A LiveServerMessage: audio is the chunk's duration (0: no inline audio).
Msg(a, i, o, n, t) ==
    [audio |-> a, interrupted |-> i, outT |-> o, inT |-> n, turnComplete |-> t]

Durations == {1, 2}

Messages ==
    {Msg(d, FALSE, NoText, NoText, FALSE) : d \in Durations}
    \cup {Msg(0, TRUE, NoText, NoText, FALSE)}
    \cup {Msg(0, FALSE, f, NoText, FALSE) : f \in Frags}
    \cup {Msg(0, FALSE, NoText, f, FALSE) : f \in Frags}
    \cup {Msg(0, FALSE, NoText, NoText, TRUE)}
    \cup {Msg(0, FALSE, <<"a">>, <<"a">>, FALSE),
          Msg(1, FALSE, <<"a">>, NoText, TRUE),
          Msg(1, TRUE, NoText, NoText, FALSE)}

\* ------------------------------------------------------------------- state
VARIABLES
    status,             \* useState<ConnectionStatus>
    isThinking,         \* useState(false)
    isSpeaking,         \* useState(false)
    transcriptions,     \* the transcript log
    sessionRef,         \* NULL or the start call whose session it holds
    scriptProcessorRef, \* NULL or the start call whose processor it holds
    outputContextRef,   \* whether the output AudioContext exists
    nextStartTimeRef,   \* the playback schedule cursor
    audioSourcesRef,    \* the set of active sources (chunk ids)
    transcriptionRef,   \* the PendingTurnBuffer {input, output}
    bufFrom,            \* the start calls whose sessions put text in the buffer
    calls,              \* per startSession call: pc, transport, processor
    nChunks,            \* audio chunks received so far
    pending,            \* onmessage handlers suspended at await decodeAudioData
    srcState,           \* per chunk's source: none, live, ended (event queued), gone
    sched,              \* the chunk started last since the last reset, and its predecessor
    intrMark,           \* chunks received before the latest interrupted event (-1: none yet)
    clock,              \* outputContext.currentTime
    texts,              \* per handleTextEnter call: pc and what it appended
    lastOp              \* the handler that ran in the last step (see Op)

vars == <<status, isThinking, isSpeaking, transcriptions, sessionRef,
          scriptProcessorRef, outputContextRef, nextStartTimeRef,
          audioSourcesRef, transcriptionRef, bufFrom, calls, nChunks, pending,
          srcState, sched, intrMark, clock, texts, lastOp>>

Max(a, b) == IF a >= b THEN a ELSE b

EmptyBuf == [input |-> <<>>, output |-> <<>>]

\* What ran in the last step, for the handlers the properties speak about:
\* op names the handler ("-": any other), from is the status it was invoked
\* in (stopSession), buf the PendingTurnBuffer it read (turn complete), src
\* the sessions whose fragments that buffer held and by the session whose
\* handler flushed it.
Op(o, f, b) == [op |-> o, from |-> f, buf |-> b, src |-> {}, by |-> 0]
NoOp == Op("-", "-", EmptyBuf)

\* The schedule record: the chunk started last since the last stop or
\* interruption (id, start: the time handed to source.start, at: the clock
\* reading when it was started, end: start plus duration) and the id and end of
\* the chunk started before it (id 0, end -1: none).
NoSched ==
    [id |-> 0, start |-> 0, at |-> 0, end |-> -1, prevId |-> 0, prevEnd |-> -1]

\* the log restored from storage: empty, or the single 'init' entry
InitialLogs == {<<>>, <<Entry("model", <<"a">>)>>}

Init ==
    /\ status = "disconnected"
    /\ isThinking = FALSE
    /\ isSpeaking = FALSE
    /\ transcriptions \in InitialLogs
    /\ sessionRef = NULL
    /\ scriptProcessorRef = NULL
    /\ outputContextRef = FALSE
    /\ nextStartTimeRef = 0
    /\ audioSourcesRef = {}
    /\ transcriptionRef = EmptyBuf
    /\ bufFrom = {}
    /\ calls = [c \in StartIds |-> [pc |-> "idle", ts |-> "none", proc |-> "none"]]
    /\ nChunks = 0
    /\ pending = <<>>
    /\ srcState = [i \in ChunkIds |-> "none"]
    /\ sched = NoSched
    /\ intrMark = -1
    /\ clock = 0
    /\ texts = [k \in TextIds |-> [pc |-> "idle", own |-> <<>>]]
    /\ lastOp = NoOp

\* groups of variables, for the UNCHANGED clauses
flagVars == <<isThinking, isSpeaking>>
refVars == <<sessionRef, scriptProcessorRef>>
logVars == <<transcriptions, transcriptionRef, bufFrom>>
audioVars == <<nextStartTimeRef, audioSourcesRef, nChunks, pending, srcState,
               sched, intrMark>>

\* ------------------------------------------------------------ stopSession
\* The part of the state stopSession reads and writes, as a record; threw
\* records an exception escaping the call.
Cur ==
    [status |-> status, isThinking |-> isThinking, isSpeaking |-> isSpeaking,
     sessionRef |-> sessionRef, scriptProcessorRef |-> scriptProcessorRef,
     nextStartTimeRef |-> nextStartTimeRef, audioSourcesRef |-> audioSourcesRef,
     calls |-> calls, srcState |-> srcState, threw |-> FALSE]

\* session.close(): a transport that is not closed yet starts closing; closing
\* an already closing or closed transport does nothing
CloseTransport(cs, c) ==
    IF cs[c].ts \in {"pending", "open"}
    THEN [cs EXCEPT ![c].ts = "closing"]
    ELSE cs

\* scriptProcessor.disconnect()
DisconnectProcessor(cs, c) == [cs EXCEPT ![c].proc = "disconnected"]

\* s.stop() raises on a source that has already finished
StopRaises(ss, i) == ss[i] = "ended"

\* audioSourcesRef.current.forEach(s => { try { s.stop(); } catch (e) {} }):
\* a live source is stopped (its ended event is queued), the exception of a
\* finished one is swallowed
StopAll(ss, set) ==
    [i \in ChunkIds |-> IF i \in set /\ ss[i] = "live" THEN "ended" ELSE ss[i]]

\* lines 83-91: the session and the processor held by the refs are released
ReleaseRefs(st) ==
    LET c1 == IF st.sessionRef # NULL
              THEN CloseTransport(st.calls, st.sessionRef) ELSE st.calls
        c2 == IF st.scriptProcessorRef # NULL
              THEN DisconnectProcessor(c1, st.scriptProcessorRef) ELSE c1
    IN [st EXCEPT !.sessionRef = NULL, !.scriptProcessorRef = NULL, !.calls = c2]

\* mutant of stopSession: the schedule cursor is not reset
stopSessionKeepsCursor(st) ==
    [ReleaseRefs(st) EXCEPT
        !.srcState = StopAll(st.srcState, st.audioSourcesRef),
        !.audioSourcesRef = {},
        !.status = "disconnected", !.isSpeaking = FALSE, !.isThinking = FALSE]

\* mutant of stopSession: s.stop() is not wrapped in try/catch, so a source
\* that already finished aborts the call before the set is cleared
stopSessionNoCatch(st) ==
    IF \E i \in st.audioSourcesRef : StopRaises(st.srcState, i)
    THEN [ReleaseRefs(st) EXCEPT !.threw = TRUE]
    ELSE [ReleaseRefs(st) EXCEPT
            !.srcState = StopAll(st.srcState, st.audioSourcesRef),
            !.audioSourcesRef = {}, !.nextStartTimeRef = 0,
            !.status = "disconnected", !.isSpeaking = FALSE,
            !.isThinking = FALSE]

\* stopSession (lines 82-102) applied to the state record st
stopSession(st) ==
    [ReleaseRefs(st) EXCEPT
        !.srcState = StopAll(st.srcState, st.audioSourcesRef),
        !.audioSourcesRef = {}, !.nextStartTimeRef = 0,
        !.status = "disconnected", !.isSpeaking = FALSE, !.isThinking = FALSE]

\* the state after a call of stopSession that returned r; the schedule record
\* starts afresh
StopApply(r) ==
    /\ status' = r.status
    /\ isThinking' = r.isThinking
    /\ isSpeaking' = r.isSpeaking
    /\ sessionRef' = r.sessionRef
    /\ scriptProcessorRef' = r.scriptProcessorRef
    /\ nextStartTimeRef' = r.nextStartTimeRef
    /\ audioSourcesRef' = r.audioSourcesRef
    /\ calls' = r.calls
    /\ srcState' = r.srcState
    /\ sched' = NoSched
    /\ UNCHANGED <<logVars, outputContextRef, nChunks, pending, intrMark,
                   clock, texts>>

\* the orb is clicked while status is connected (line 287)
OrbClickStop ==
    /\ status = "connected"
    /\ StopApply(stopSession(Cur))
    /\ lastOp' = Op("stopSession", status, EmptyBuf)

\* ----------------------------------------------------------- startSession
\* the orb is clicked while status is not connected (line 287); lines 104-107
\* up to the await of getUserMedia
StartBegin(c) ==
    /\ status # "connected"
    /\ calls[c].pc = "idle"
    /\ \A d \in StartIds : d < c => calls[d].pc # "idle"
    /\ status' = "connecting"
    /\ calls' = [calls EXCEPT ![c].pc = "getUserMedia"]
    /\ lastOp' = NoOp
    /\ UNCHANGED <<flagVars, refVars, logVars, audioVars, outputContextRef,
                   clock, texts>>

\* mutant of StartCatch: the error is logged and the status is left as it is
StartCatchKeepsStatus(c) ==
    /\ calls' = [calls EXCEPT ![c].pc = "failed"]
    /\ lastOp' = NoOp
    /\ UNCHANGED <<status, flagVars, refVars, logVars, audioVars,
                   outputContextRef, clock, texts>>

\* the catch block of startSession (lines 207-210)
StartCatch(c) ==
    /\ status' = "error"
    /\ calls' = [calls EXCEPT ![c].pc = "failed"]
    /\ lastOp' = NoOp
    /\ UNCHANGED <<flagVars, refVars, logVars, audioVars, outputContextRef,
                   clock, texts>>

\* getUserMedia rejects (microphone permission denied)
GetUserMediaReject(c) ==
    /\ calls[c].pc = "getUserMedia"
    /\ StartCatch(c)

\* getUserMedia resolves; lines 108-113 up to the awaits of resume()
GetUserMediaResolve(c) ==
    /\ calls[c].pc = "getUserMedia"
    /\ outputContextRef' = TRUE
    /\ calls' = [calls EXCEPT ![c].pc = "resume"]
    /\ lastOp' = NoOp
    /\ UNCHANGED <<status, flagVars, refVars, logVars, audioVars, clock, texts>>

\* an audio context cannot be resumed or wired (device unavailable)
ResumeReject(c) ==
    /\ calls[c].pc = "resume"
    /\ StartCatch(c)

\* both resume() calls resolve; lines 116-125: ai.live.connect is called
ResumeResolve(c) ==
    /\ calls[c].pc = "resume"
    /\ calls' = [calls EXCEPT ![c].pc = "connect", ![c].ts = "pending"]
    /\ lastOp' = NoOp
    /\ UNCHANGED <<status, flagVars, refVars, logVars, audioVars,
                   outputContextRef, clock, texts>>

\* the connect promise rejects before the transport opened (line 206, then
\* the catch block)
ConnectReject(c) ==
    /\ calls[c].pc = "connect"
    /\ calls[c].ts = "pending"
    /\ status' = "error"
    /\ calls' = [calls EXCEPT ![c].pc = "failed", ![c].ts = "closed"]
    /\ lastOp' = NoOp
    /\ UNCHANGED <<flagVars, refVars, logVars, audioVars, outputContextRef,
                   clock, texts>>

\* callbacks.onopen (lines 137-151)
OnOpen(c) ==
    /\ calls[c].ts = "pending"
    /\ status' = "connected"
    /\ scriptProcessorRef' = c
    /\ calls' = [calls EXCEPT ![c].ts = "open", ![c].proc = "connected"]
    /\ lastOp' = NoOp
    /\ UNCHANGED <<flagVars, sessionRef, logVars, audioVars, outputContextRef,
                   clock, texts>>

\* sessionRef.current = await sessionPromise (line 206); the promise resolves
\* once the transport has opened
ConnectResolve(c) ==
    /\ calls[c].pc = "connect"
    /\ calls[c].proc # "none"
    /\ sessionRef' = c
    /\ calls' = [calls EXCEPT ![c].pc = "done"]
    /\ lastOp' = NoOp
    /\ UNCHANGED <<status, flagVars, scriptProcessorRef, logVars, audioVars,
                   outputContextRef, clock, texts>>

\* mutant of TransportStop: a transport failure surfaces as the error state
TransportStopSetsError(c, ts) ==
    StopApply([stopSession([Cur EXCEPT !.calls[c].ts = ts])
                  EXCEPT !.status = "error"])

\* onerror: () => stopSession() and onclose: () => stopSession() (lines
\* 202-203): the transport of call c has moved to ts, then stopSession runs
TransportStop(c, ts) ==
    StopApply(stopSession([Cur EXCEPT !.calls[c].ts = ts]))

\* callbacks.onerror: the socket fails and will report its close next
OnError(c) ==
    /\ calls[c].ts \in {"pending", "open"}
    /\ TransportStop(c, "closing")
    /\ lastOp' = Op("onerror", status, EmptyBuf)

\* callbacks.onclose
OnClose(c) ==
    /\ calls[c].ts \in {"pending", "open", "closing"}
    /\ TransportStop(c, "closed")
    /\ lastOp' = Op("onclose", status, EmptyBuf)

\* ---------------------------------------------------------------- playback
\* The part of the state the onmessage handler reads and writes.
MsgCur ==
    [isThinking |-> isThinking, isSpeaking |-> isSpeaking,
     nextStartTimeRef |-> nextStartTimeRef, audioSourcesRef |-> audioSourcesRef,
     srcState |-> srcState, sched |-> sched, intrMark |-> intrMark,
     transcriptionRef |-> transcriptionRef, transcriptions |-> transcriptions,
     bufFrom |-> bufFrom,
     lastOp |-> NoOp]

\* mutant of scheduleChunk: the cursor is not advanced by the duration
scheduleChunkNoAdvance(st, id, dur, now) ==
    [st EXCEPT
        !.srcState[id] = "live",
        !.sched = [id |-> id, start |-> st.nextStartTimeRef, at |-> now,
                   end |-> st.nextStartTimeRef + dur,
                   prevId |-> st.sched.id, prevEnd |-> st.sched.end],
        !.audioSourcesRef = st.audioSourcesRef \cup {id}]

\* lines 160-169, after the decode of chunk id (duration dur) completed at
\* clock reading now: the source is started at the cursor, the cursor moves
\* on by the duration and the source joins the active set
scheduleChunk(st, id, dur, now) ==
    [st EXCEPT
        !.srcState[id] = "live",
        !.sched = [id |-> id, start |-> st.nextStartTimeRef, at |-> now,
                   end |-> st.nextStartTimeRef + dur,
                   prevId |-> st.sched.id, prevEnd |-> st.sched.end],
        !.nextStartTimeRef = st.nextStartTimeRef + dur,
        !.audioSourcesRef = st.audioSourcesRef \cup {id}]

\* lines 172-177: message.serverContent?.interrupted; seen is the number of
\* chunks received so far
interruptedBranch(st, seen) ==
    [st EXCEPT
        !.srcState = StopAll(st.srcState, st.audioSourcesRef),
        !.audioSourcesRef = {},
        !.nextStartTimeRef = 0,
        !.isSpeaking = FALSE,
        !.sched = NoSched,
        !.intrMark = seen,
        !.lastOp = Op("interrupted", "-", EmptyBuf)]

\* lines 179-184: an output fragment, else an input fragment
transcriptBranch(st, m, c) ==
    IF m.outT # NoText
    THEN [st EXCEPT !.transcriptionRef.output = @ \o m.outT,
                    !.bufFrom = @ \cup {c}]
    ELSE IF m.inT # NoText
    THEN [st EXCEPT !.transcriptionRef.input = @ \o m.inT,
                    !.bufFrom = @ \cup {c}, !.isThinking = TRUE]
    ELSE st

\* the entries the flush commits for the buffer buf (lines 187-196)
FlushEntries(buf) ==
    LET cleanedIn == filterHallucinations(buf.input)
        cleanedOut == filterHallucinations(buf.output)
    IN (IF cleanedIn # <<>> THEN <<Entry("user", cleanedIn)>> ELSE <<>>)
       \o (IF cleanedOut # <<>> THEN <<Entry("model", cleanedOut)>> ELSE <<>>)

\* mutant of turnCompleteBranch: only the input side of the buffer is cleared
turnCompleteKeepsOutput(st, c) ==
    [st EXCEPT
        !.transcriptions = @ \o FlushEntries(st.transcriptionRef),
        !.transcriptionRef = [input |-> <<>>, output |-> st.transcriptionRef.output],
        !.isThinking = FALSE,
        !.lastOp = [Op("turnComplete", "-", st.transcriptionRef)
                        EXCEPT !.src = st.bufFrom, !.by = c]]

\* lines 186-200: message.serverContent?.turnComplete
turnCompleteBranch(st, c) ==
    [st EXCEPT
        !.transcriptions = @ \o FlushEntries(st.transcriptionRef),
        !.transcriptionRef = EmptyBuf,
        !.bufFrom = {},
        !.isThinking = FALSE,
        !.lastOp = [Op("turnComplete", "-", st.transcriptionRef)
                        EXCEPT !.src = st.bufFrom, !.by = c]]

\* lines 172-200: what the handler does after the audio part of message m
onmessageTail(st, m, seen, c) ==
    LET s1 == IF m.interrupted THEN interruptedBranch(st, seen) ELSE st
        s2 == transcriptBranch(s1, m, c)
    IN IF m.turnComplete THEN turnCompleteBranch(s2, c) ELSE s2

\* the model's bounds on the buffer and the log admit the result r
Fits(r) ==
    /\ Len(r.transcriptionRef.input) + Len(r.transcriptionRef.output) <= MaxBuf
    /\ Len(r.transcriptions) <= MaxLog

MsgApply(r) ==
    /\ isThinking' = r.isThinking
    /\ isSpeaking' = r.isSpeaking
    /\ nextStartTimeRef' = r.nextStartTimeRef
    /\ audioSourcesRef' = r.audioSourcesRef
    /\ srcState' = r.srcState
    /\ sched' = r.sched
    /\ intrMark' = r.intrMark
    /\ transcriptionRef' = r.transcriptionRef
    /\ bufFrom' = r.bufFrom
    /\ transcriptions' = r.transcriptions
    /\ lastOp' = r.lastOp

\* callbacks.onmessage for a message without inline audio: the whole handler
\* (lines 152-201) runs without suspending
OnMessage(c, m) ==
    /\ calls[c].ts = "open"
    /\ m.audio = 0 \/ ~outputContextRef
    /\ LET r == onmessageTail(MsgCur, m, nChunks, c)
       IN Fits(r) /\ MsgApply(r)
    /\ UNCHANGED <<status, refVars, outputContextRef, calls, nChunks, pending,
                   clock, texts>>

\* callbacks.onmessage for a message with inline audio, lines 153-159 up to
\* await decodeAudioData: the flags and the cursor are set, the handler is
\* suspended
OnMessageAudio(c, m) ==
    /\ calls[c].ts = "open"
    /\ m.audio # 0 /\ outputContextRef
    /\ nChunks < MaxChunks
    /\ isThinking' = FALSE
    /\ isSpeaking' = TRUE
    /\ nextStartTimeRef' = Max(nextStartTimeRef, clock)
    /\ nChunks' = nChunks + 1
    /\ pending' = Append(pending, [id |-> nChunks + 1, msg |-> m, session |-> c])
    /\ lastOp' = NoOp
    /\ UNCHANGED <<status, refVars, logVars, outputContextRef, audioSourcesRef,
                   calls, srcState, sched, intrMark, clock, texts>>

RemoveAt(sq, j) == SubSeq(sq, 1, j - 1) \o SubSeq(sq, j + 1, Len(sq))

\* what decodeAudioData (services/audioUtils) may do with a chunk: deliver
\* the buffer some time later, or fail with a DecodeError
DecodeOutcomes == {"buffer", "DecodeError"}

\* decodeAudioData resolves for the j-th suspended handler, which runs to its
\* end (lines 159-200)
DecodeResolve(j) ==
    /\ "buffer" \in DecodeOutcomes
    /\ j \in 1..Len(pending)
    /\ LET h == pending[j]
           r == onmessageTail(scheduleChunk(MsgCur, h.id, h.msg.audio, clock),
                              h.msg, nChunks, h.session)
       IN Fits(r) /\ MsgApply(r)
    /\ pending' = RemoveAt(pending, j)
    /\ UNCHANGED <<status, refVars, outputContextRef, calls, nChunks, clock,
                   texts>>

\* decodeAudioData rejects for the j-th suspended handler: the rejection
\* leaves the async handler (line 159), whose remaining lines do not run
DecodeReject(j) ==
    /\ "DecodeError" \in DecodeOutcomes
    /\ j \in 1..Len(pending)
    /\ pending' = RemoveAt(pending, j)
    /\ lastOp' = NoOp
    /\ UNCHANGED <<status, flagVars, refVars, logVars, outputContextRef,
                   nextStartTimeRef, audioSourcesRef, calls, nChunks, srcState,
                   sched, intrMark, clock, texts>>

\* the device clock (context.currentTime) advances
Tick ==
    /\ clock < MaxClock
    /\ clock' = clock + 1
    /\ lastOp' = NoOp
    /\ UNCHANGED <<status, flagVars, refVars, logVars, audioVars,
                   outputContextRef, calls, texts>>

\* a live source plays to its end; its ended event is queued
SourceFinish(i) ==
    /\ srcState[i] = "live"
    /\ srcState' = [srcState EXCEPT ![i] = "ended"]
    /\ lastOp' = NoOp
    /\ UNCHANGED <<status, flagVars, refVars, logVars, outputContextRef,
                   nextStartTimeRef, audioSourcesRef, calls, nChunks, pending,
                   sched, intrMark, clock, texts>>

\* source.onended (lines 163-166), for a source that finished or was stopped
OnEnded(i) ==
    /\ srcState[i] = "ended"
    /\ srcState' = [srcState EXCEPT ![i] = "gone"]
    /\ audioSourcesRef' = audioSourcesRef \ {i}
    /\ isSpeaking' = IF audioSourcesRef \ {i} = {} THEN FALSE ELSE isSpeaking
    /\ lastOp' = NoOp
    /\ UNCHANGED <<status, isThinking, refVars, logVars, outputContextRef,
                   nextStartTimeRef, calls, nChunks, pending, sched, intrMark,
                   clock, texts>>

\* --------------------------------------------------------- handleTextEnter
\* if (!text.trim()) return  (line 214)
TextSkip(k, text) ==
    /\ texts[k].pc = "idle"
    /\ Trim(text) = <<>>
    /\ texts' = [texts EXCEPT ![k].pc = "skipped"]
    /\ lastOp' = NoOp
    /\ UNCHANGED <<status, flagVars, refVars, logVars, audioVars,
                   outputContextRef, calls, clock>>

\* lines 215-218: the user entry is appended and thinking is set
TextPrologue(k, text) ==
    /\ texts[k].pc = "idle"
    /\ Trim(text) # <<>>
    /\ Len(transcriptions) + 2 <= MaxLog
    /\ transcriptions' = Append(transcriptions, Entry("user", text))
    /\ isThinking' = TRUE
    /\ UNCHANGED <<status, isSpeaking, refVars, transcriptionRef, bufFrom, audioVars,
                   outputContextRef, calls, clock>>

\* lines 213-233 up to await chat.sendMessage
TextBegin(k, text) ==
    /\ TextPrologue(k, text)
    /\ texts' = [texts EXCEPT ![k] = [pc |-> "awaitReply", own |-> <<"user">>]]
    /\ lastOp' = NoOp

\* lines 213-230 when new GoogleGenAI (line 220, no API key) or
\* ai.chats.create (line 226) throws: both are outside the try block, so the
\* call ends rejected without reaching finally
TextBeginThrows(k, text) ==
    /\ TextPrologue(k, text)
    /\ texts' = [texts EXCEPT ![k] = [pc |-> "rejected", own |-> <<"user">>]]
    /\ lastOp' = Op("textRejected", "-", EmptyBuf)

\* mutant of TextReply: the reply takes the place of the log's last entry
TextReplyOverwrites(k, reply) ==
    /\ texts[k].pc = "awaitReply"
    /\ transcriptions' =
           [transcriptions EXCEPT
               ![Len(transcriptions)] = Entry("model", filterHallucinations(reply))]
    /\ isThinking' = FALSE
    /\ texts' = [texts EXCEPT ![k].pc = "done", ![k].own = Append(@, "model")]
    /\ lastOp' = Op("textDone", "-", EmptyBuf)
    /\ UNCHANGED <<status, isSpeaking, refVars, transcriptionRef, bufFrom, audioVars,
                   outputContextRef, calls, clock>>

\* chat.sendMessage resolves: line 234, then finally (line 238)
TextReply(k, reply) ==
    /\ texts[k].pc = "awaitReply"
    /\ transcriptions' =
           Append(transcriptions, Entry("model", filterHallucinations(reply)))
    /\ isThinking' = FALSE
    /\ texts' = [texts EXCEPT ![k].pc = "done", ![k].own = Append(@, "model")]
    /\ lastOp' = Op("textDone", "-", EmptyBuf)
    /\ UNCHANGED <<status, isSpeaking, refVars, transcriptionRef, bufFrom, audioVars,
                   outputContextRef, calls, clock>>

\* mutant of TextFail: the catch block appends an (empty) reply entry
TextFailAppends(k) ==
    /\ texts[k].pc = "awaitReply"
    /\ transcriptions' = Append(transcriptions, Entry("model", <<>>))
    /\ isThinking' = FALSE
    /\ texts' = [texts EXCEPT ![k].pc = "failed", ![k].own = Append(@, "model")]
    /\ lastOp' = Op("textFailed", "-", EmptyBuf)
    /\ UNCHANGED <<status, isSpeaking, refVars, transcriptionRef, bufFrom, audioVars,
                   outputContextRef, calls, clock>>

\* chat.sendMessage rejects: catch (line 236), then finally (line 238)
TextFail(k) ==
    /\ texts[k].pc = "awaitReply"
    /\ isThinking' = FALSE
    /\ texts' = [texts EXCEPT ![k].pc = "failed"]
    /\ lastOp' = Op("textFailed", "-", EmptyBuf)
    /\ UNCHANGED <<status, isSpeaking, refVars, logVars, audioVars,
                   outputContextRef, calls, clock>>

\* ------------------------------------------------------------ specification
\* Every handler, with every input of the environment.
Next ==
    \/ OrbClickStop
    \/ \E c \in StartIds :
          \/ StartBegin(c)
          \/ GetUserMediaReject(c)
          \/ GetUserMediaResolve(c)
          \/ ResumeReject(c)
          \/ ResumeResolve(c)
          \/ ConnectReject(c)
          \/ OnOpen(c)
          \/ ConnectResolve(c)
          \/ OnError(c)
          \/ OnClose(c)
          \/ \E m \in Messages : OnMessage(c, m) \/ OnMessageAudio(c, m)
    \/ \E j \in 1..MaxChunks : DecodeResolve(j) \/ DecodeReject(j)
    \/ Tick
    \/ \E i \in ChunkIds : SourceFinish(i) \/ OnEnded(i)
    \/ \E k \in TextIds :
          \/ \E text \in TextInputs :
                TextSkip(k, text) \/ TextBegin(k, text) \/ TextBeginThrows(k, text)
          \/ \E reply \in Replies : TextReply(k, reply)
          \/ TextFail(k)

Spec == Init /\ [][Next]_vars

\* The product of all inputs is beyond exhaustive search, so the properties are
\* checked under three specifications that keep every handler they are about
\* and narrow the inputs of the environment that do not bear on them.

\* Session lifecycle: every startSession call and transport event, stopSession,
\* and live sessions that deliver short audio and input fragments; the device
\* clock stands still, no turn completes and no text is typed.
SessionMsgs ==
    {Msg(1, FALSE, NoText, NoText, FALSE), Msg(0, FALSE, NoText, <<"a">>, FALSE)}

NextSession ==
    \/ OrbClickStop
    \/ \E c \in StartIds :
          \/ StartBegin(c)
          \/ GetUserMediaReject(c)
          \/ GetUserMediaResolve(c)
          \/ ResumeReject(c)
          \/ ResumeResolve(c)
          \/ ConnectReject(c)
          \/ OnOpen(c)
          \/ ConnectResolve(c)
          \/ OnError(c)
          \/ OnClose(c)
          \/ \E m \in SessionMsgs :
                \/ OnMessage(c, m)
                \/ nChunks < MaxSessionChunks /\ OnMessageAudio(c, m)
    \/ \E j \in 1..MaxChunks : DecodeResolve(j) \/ DecodeReject(j)
    \/ \E i \in ChunkIds : SourceFinish(i) \/ OnEnded(i)

SpecSession == Init /\ [][NextSession]_vars

\* Playback: one session, every message that carries audio or an interruption,
\* decodes that complete in any order or fail, the device clock, stopSession.
PlaybackMsgs == {m \in Messages : m.audio # 0 \/ m.interrupted}

NextPlayback ==
    \/ OrbClickStop
    \/ \E c \in 1..MaxPlaybackStarts :
          \/ StartBegin(c)
          \/ GetUserMediaReject(c)
          \/ GetUserMediaResolve(c)
          \/ ResumeReject(c)
          \/ ResumeResolve(c)
          \/ ConnectReject(c)
          \/ OnOpen(c)
          \/ ConnectResolve(c)
          \/ OnError(c)
          \/ OnClose(c)
          \/ \E m \in PlaybackMsgs : OnMessage(c, m) \/ OnMessageAudio(c, m)
    \/ \E j \in 1..MaxChunks : DecodeResolve(j) \/ DecodeReject(j)
    \/ Tick
    \/ \E i \in ChunkIds : SourceFinish(i) \/ OnEnded(i)

SpecPlayback == Init /\ [][NextPlayback]_vars

\* Transcript: one session, every message that carries a fragment or completes
\* a turn (also behind a decode), typed text, stopSession.
TranscriptMsgs ==
    {m \in Messages : ~m.interrupted /\ (m.audio = 0 \/ m.turnComplete)}

NextTranscript ==
    \/ OrbClickStop
    \/ \E c \in 1..MaxPlaybackStarts :
          \/ StartBegin(c)
          \/ GetUserMediaReject(c)
          \/ GetUserMediaResolve(c)
          \/ ResumeReject(c)
          \/ ResumeResolve(c)
          \/ ConnectReject(c)
          \/ OnOpen(c)
          \/ ConnectResolve(c)
          \/ OnError(c)
          \/ OnClose(c)
          \/ \E m \in TranscriptMsgs :
                \/ OnMessage(c, m)
                \/ nChunks < MaxSessionChunks /\ OnMessageAudio(c, m)
    \/ \E j \in 1..MaxChunks : DecodeResolve(j) \/ DecodeReject(j)
    \/ \E k \in TextIds :
          \/ \E text \in TextInputs :
                TextSkip(k, text) \/ TextBegin(k, text) \/ TextBeginThrows(k, text)
          \/ \E reply \in Replies : TextReply(k, reply)
          \/ TextFail(k)

SpecTranscript == Init /\ [][NextTranscript]_vars

\* Carry-over: sessions started one after the other (the orb is not clicked
\* while a start is in progress), every transport event, stopSession, and
\* sessions that deliver input fragments and complete turns; no audio, no text.
CarryMsgs ==
    {Msg(0, FALSE, NoText, <<"a">>, FALSE), Msg(0, FALSE, NoText, NoText, TRUE)}

NoStartInProgress ==
    \A d \in StartIds : calls[d].pc \in {"idle", "done", "failed"}

NextCarry ==
    \/ OrbClickStop
    \/ \E c \in StartIds :
          \/ NoStartInProgress /\ StartBegin(c)
          \/ GetUserMediaReject(c)
          \/ GetUserMediaResolve(c)
          \/ ResumeReject(c)
          \/ ResumeResolve(c)
          \/ ConnectReject(c)
          \/ OnOpen(c)
          \/ ConnectResolve(c)
          \/ OnError(c)
          \/ OnClose(c)
          \/ \E m \in CarryMsgs : OnMessage(c, m)

SpecCarry == Init /\ [][NextCarry]_vars

\* ================================================================ properties
StopOps == {"stopSession", "onerror", "onclose"}

\* C1: every call of stopSession, from whatever status, leaves sessionRef null
\* with the session it held closing or closed, scriptProcessorRef null with
\* the processor it held disconnected, the active source set empty with none
\* of its sources still playing, nextStartTime 0, isSpeaking and isThinking
\* false, and status disconnected.
C1_StopPostcondition ==
    [][lastOp'.op \in StopOps =>
          /\ sessionRef' = NULL
          /\ sessionRef # NULL => calls'[sessionRef].ts \in {"closing", "closed"}
          /\ scriptProcessorRef' = NULL
          /\ scriptProcessorRef # NULL =>
                 calls'[scriptProcessorRef].proc = "disconnected"
          /\ audioSourcesRef' = {}
          /\ \A i \in audioSourcesRef : srcState'[i] # "live"
          /\ nextStartTimeRef' = 0
          /\ isSpeaking' = FALSE
          /\ isThinking' = FALSE
          /\ status' = "disconnected"]_vars

\* stopSession has just torn down a session that had a processor installed
\* and a source playing
C1_Witness ==
    /\ lastOp.op = "stopSession"
    /\ \E c \in StartIds :
          calls[c].ts = "closing" /\ calls[c].proc = "disconnected"
    /\ \E i \in ChunkIds : srcState[i] = "ended"

\* C2: in every reachable state, stopSession called twice in a row gives the
\* state one call gives and neither call raises; right after a call of
\* stopSession a further call changes nothing.
C2_StopIdempotent ==
    LET once == stopSession(Cur)
        twice == stopSession([once EXCEPT !.threw = FALSE])
    IN /\ ~once.threw
       /\ ~twice.threw
       /\ twice = once
       /\ lastOp.op \in StopOps => stopSession(Cur) = Cur

\* a connected session whose active set holds a source that already finished
C2_Witness ==
    /\ status = "connected"
    /\ sessionRef # NULL
    /\ \E i \in audioSourcesRef : srcState[i] = "ended"

\* the state record with the transport of call c left out of the comparison
Masked(st, c) == [st EXCEPT !.calls[c].ts = "-"]

\* C8: a transport error or close reported while status is connected leaves
\* exactly the state stopSession leaves when invoked in the same state (the
\* reporting transport's own state apart), with status disconnected.
C8_TransportStopIsStop ==
    [][(lastOp'.op \in {"onerror", "onclose"} /\ status = "connected") =>
          /\ status' = "disconnected"
          /\ \E c \in StartIds :
                Masked(Cur', c) = Masked(stopSession(Cur), c)
          /\ sched' = NoSched
          /\ UNCHANGED <<logVars, outputContextRef, nChunks, pending, intrMark,
                         clock, texts>>]_vars

\* the transport closed under a connected session, which was torn down
C8_Witness ==
    /\ lastOp.op = "onclose"
    /\ lastOp.from = "connected"
    /\ \E c \in StartIds :
          calls[c].ts = "closed" /\ calls[c].proc = "disconnected"

\* C3: a startSession call whose getUserMedia rejects ends with status error;
\* neither step of the call touches the transcript log, the call opens no
\* transport, installs no processor and leaves both refs alone.
C3_PermissionFailure ==
    [][\A c \in StartIds :
          /\ (calls[c].pc = "idle" /\ calls'[c].pc = "getUserMedia") =>
                 transcriptions' = transcriptions
          /\ (calls[c].pc = "getUserMedia" /\ calls'[c].pc = "failed") =>
                 /\ status' = "error"
                 /\ transcriptions' = transcriptions
                 /\ calls'[c].ts = "none"
                 /\ calls'[c].proc = "none"
                 /\ UNCHANGED refVars]_vars

\* a start failed at permission acquisition while the log held two entries
C3_Witness ==
    /\ status = "error"
    /\ ~outputContextRef
    /\ \E c \in StartIds : calls[c].pc = "failed" /\ calls[c].ts = "none"
    /\ Len(transcriptions) = 2

\* what the flush is to append for the buffer b
C4_Expected(b) ==
    LET u == filterHallucinations(b.input)
        m == filterHallucinations(b.output)
    IN CASE u # <<>> /\ m # <<>> -> <<Entry("user", u), Entry("model", m)>>
         [] u # <<>> /\ m = <<>> -> <<Entry("user", u)>>
         [] u = <<>> /\ m # <<>> -> <<Entry("model", m)>>
         [] OTHER -> <<>>

\* C4: a step that handles a turn-complete event extends the log by the user
\* entry iff the filtered input is non-empty and then the model entry iff the
\* filtered output is non-empty, and leaves the PendingTurnBuffer empty, so no
\* state holds an entry of a turn together with that turn's buffered text.
C4_FlushAtomic ==
    [][lastOp'.op = "turnComplete" =>
          /\ transcriptions' = transcriptions \o C4_Expected(lastOp'.buf)
          /\ transcriptionRef' = EmptyBuf]_vars

\* a turn completed with text on both sides
C4_Witness ==
    /\ lastOp.op = "turnComplete"
    /\ filterHallucinations(lastOp.buf.input) # <<>>
    /\ filterHallucinations(lastOp.buf.output) # <<>>
    /\ transcriptionRef = EmptyBuf

OnlyNoise(text) == \A n \in 1..Len(text) : text[n] \in {" ", "U"}

\* C5: a turn-complete event whose input and output text are both only
\* whitespace and characters above \x7F appends nothing to the log and clears
\* the PendingTurnBuffer and the thinking flag.
C5_NoiseTurnAppendsNothing ==
    [][(/\ lastOp'.op = "turnComplete"
        /\ OnlyNoise(lastOp'.buf.input)
        /\ OnlyNoise(lastOp'.buf.output)) =>
          /\ transcriptions' = transcriptions
          /\ transcriptionRef' = EmptyBuf
          /\ isThinking' = FALSE]_vars

\* a turn completed whose two sides each held noise and nothing else
C5_Witness ==
    /\ lastOp.op = "turnComplete"
    /\ lastOp.buf.input # <<>> /\ OnlyNoise(lastOp.buf.input)
    /\ lastOp.buf.output # <<>> /\ OnlyNoise(lastOp.buf.output)

\* two chunks were started one after the other, in arrival order, with no
\* interruption and no stop in between
TwoInOrder == sched.prevEnd # -1 /\ sched.prevId < sched.id

\* C6 as stated: of two chunks started one after the other in arrival order
\* with no interruption and no stop in between, the second starts exactly
\* where the first ends, start(i+1) = start(i) + d(i).
C6_Contiguous == TwoInOrder => sched.start = sched.prevEnd

\* C6 as amended: the second chunk never starts before the first one ends,
\* start(i+1) >= start(i) + d(i), and starts exactly there whenever the device
\* clock has not passed that point when the second chunk is started.
C6_NoOverlapContiguousUnlessLate ==
    sched.prevEnd # -1 =>
        /\ sched.start >= sched.prevEnd
        /\ sched.prevEnd >= sched.at => sched.start = sched.prevEnd

\* two chunks in arrival order, the second started back to back with the first
\* after the clock had advanced
C6_Witness ==
    /\ TwoInOrder
    /\ sched.at > 0
    /\ sched.start = sched.prevEnd

\* C7 as stated: once an interrupted event has been handled no source of a
\* chunk received before it is in the active set, the cursor is 0 right after
\* the event, and a chunk received after it is started at a time that is not
\* before the device clock at the moment it is started.
C7_InterruptionClearsAll ==
    /\ intrMark >= 0 => \A i \in audioSourcesRef : i > intrMark
    /\ lastOp.op = "interrupted" => nextStartTimeRef = 0
    /\ (intrMark >= 0 /\ sched.id > intrMark) => sched.start >= sched.at

FinishOps == {"textDone", "textFailed", "textRejected"}

\* C9 as stated: when a handleTextEnter call that set isThinking has finished,
\* with a reply or with a failure, isThinking is false.
C9_ThinkingCleared == lastOp.op \in FinishOps => isThinking = FALSE

Failed == {"failed", "rejected"}

\* C10 as stated: a handleTextEnter call whose request was sent and failed has
\* appended no entry to the log.
C10_FailedAppendsNothing ==
    \A k \in TextIds : texts[k].pc = "failed" => texts[k].own = <<>>

\* C10 as amended: the step in which a handleTextEnter call fails appends no
\* reply entry: it leaves the log alone when the request was outstanding, and
\* appends only the user entry when the call fails before it sends the request;
\* the failed call has appended the user entry and nothing else.
C10_FailedAppendsOnlyUserEntry ==
    [][\A k \in TextIds :
          (texts[k].pc \notin Failed /\ texts'[k].pc \in Failed) =>
              /\ texts'[k].own = <<"user">>
              /\ IF texts[k].pc = "awaitReply"
                 THEN transcriptions' = transcriptions
                 ELSE \E text \in TextInputs :
                         transcriptions' =
                             Append(transcriptions, Entry("user", text))]_vars

\* a request was sent and failed
C10_Witness ==
    /\ lastOp.op = "textFailed"
    /\ \E k \in TextIds : texts[k].pc = "failed" /\ texts[k].own = <<"user">>
    /\ transcriptions # <<>>

IsPrefix(s, t) == Len(s) <= Len(t) /\ SubSeq(t, 1, Len(s)) = s

\* C11: the transcript log is append-only: in every step, whatever handler
\* takes it, the log before the step is a prefix of the log after it.
C11_AppendOnly == [][IsPrefix(transcriptions, transcriptions')]_vars

\* a typed request was answered: the log grew by the user entry and the reply
C11_Witness ==
    /\ lastOp.op = "textDone"
    /\ Len(transcriptions) = 2
    /\ transcriptions[1].role = "user"
    /\ transcriptions[2].role = "model"

\* the transport sessions that are open: opened and not yet closed
OpenSessions == {c \in StartIds : calls[c].ts = "open"}

\* C12 as stated: in every reachable state at most one transport session is
\* open.
C12_AtMostOneOpen == Cardinality(OpenSessions) <= 1

\* C13 as stated, for the handler that finishes right after the stop: when
\* stopSession has run while a chunk's decode was outstanding and that chunk's
\* handler then finishes, the active source set is still empty and no source
\* has been started.
C13_StopLeavesNoDanglingSource ==
    [][(/\ lastOp.op \in StopOps
        /\ pending # <<>>
        /\ Len(pending') < Len(pending)) =>
          /\ audioSourcesRef' = {}
          /\ srcState' = srcState]_vars

\* a startSession call begins in this step
StartsNow == \E c \in StartIds : calls[c].pc = "idle" /\ calls'[c].pc # "idle"

\* a step of some start sequence fails in this step: the call ends in its
\* catch block, or its transport fails or closes before it has opened
StartFailsNow ==
    \E c \in StartIds :
        \/ calls[c].pc # "failed" /\ calls'[c].pc = "failed"
        \/ calls[c].ts = "pending" /\ calls'[c].ts \in {"closing", "closed"}

\* C14 as stated: a startSession call sets status connecting; status becomes
\* connected only in the transport-open callback, which installs the capture
\* processor; when a step of the start sequence fails status becomes error;
\* and status error is left only by the user starting again.
C14_StartTransitions ==
    [][/\ StartsNow => status' = "connecting"
       /\ (status # "connected" /\ status' = "connected") =>
              \E c \in StartIds :
                  /\ calls[c].ts = "pending" /\ calls'[c].ts = "open"
                  /\ scriptProcessorRef' = c
                  /\ calls'[c].proc = "connected"
       /\ StartFailsNow => status' = "error"
       /\ (status = "error" /\ status' # "error") => StartsNow]_vars

\* the j-th suspended handler ends in this step with its decode failed: it
\* leaves the suspended handlers and no source is started
DecodeFailsNow(j) ==
    /\ j \in 1..Len(pending)
    /\ pending' = RemoveAt(pending, j)
    /\ srcState' = srcState

\* C15 as stated: when the decode of a chunk fails only the chunk is dropped:
\* status is unchanged, and the step leaves the state that handling the rest
\* of the chunk's message (interrupted, fragments, turn complete) without the
\* chunk gives.
C15_DecodeFailureDropsOnlyChunk ==
    [][\A j \in 1..MaxChunks :
          DecodeFailsNow(j) =>
              LET r == onmessageTail(MsgCur, pending[j].msg, nChunks,
                                     pending[j].session)
              IN /\ status' = status
                 /\ audioSourcesRef' = r.audioSourcesRef
                 /\ nextStartTimeRef' = r.nextStartTimeRef
                 /\ transcriptions' = r.transcriptions
                 /\ transcriptionRef' = r.transcriptionRef
                 /\ isThinking' = r.isThinking]_vars

\* C16 as stated: while a handleTextEnter request is outstanding isThinking is
\* true.
C16_ThinkingWhileOutstanding ==
    \A k \in TextIds : texts[k].pc = "awaitReply" => isThinking = TRUE

\* C17 as stated: whenever status is disconnected, sessionRef and
\* scriptProcessorRef are null, no session is open and no capture processor is
\* connected.
C17_DisconnectedHoldsNothing ==
    status = "disconnected" =>
        /\ sessionRef = NULL
        /\ scriptProcessorRef = NULL
        /\ \A c \in StartIds : calls[c].ts # "open" /\ calls[c].proc # "connected"

\* the close callback of session c fires in this step after c had already
\* been stopped (its close was requested, or its error was reported, earlier)
StaleCloseNow(c) ==
    /\ lastOp'.op = "onclose"
    /\ calls[c].ts = "closing"
    /\ calls'[c].ts = "closed"

\* C18 as stated: the close callback of a session that was already stopped
\* changes neither status nor the refs nor any other session or its processor.
C18_StaleCloseIsInert ==
    [][\A c \in StartIds :
          StaleCloseNow(c) =>
              /\ status' = status
              /\ sessionRef' = sessionRef
              /\ scriptProcessorRef' = scriptProcessorRef
              /\ \A d \in StartIds \ {c} : calls'[d] = calls[d]]_vars

\* the flush kept every character of the buffer it read
NothingFiltered(buf) ==
    /\ filterHallucinations(buf.input) = buf.input
    /\ filterHallucinations(buf.output) = buf.output

\* C19 as stated: the entries committed by a turn-complete flush hold no text
\* of a session other than the flushing one that had been stopped (its
\* transport closing or closed) before the flush.
C19_NoCarryOver ==
    (lastOp.op = "turnComplete" /\ NothingFiltered(lastOp.buf)) =>
        \A d \in lastOp.src \ {lastOp.by} : calls[d].ts \notin {"closing", "closed"}

\* C20 as stated: whenever no audio chunk handler is suspended at its decode,
\* isSpeaking is true iff the active source set is non-empty.
C20_SpeakingIffActive ==
    pending = <<>> => (isSpeaking <=> audioSourcesRef # {})

====
